---- MODULE Spec2Model ----
(***************************************************************************)
(* A model of unyek (src/unyek.ts): the parser of a yek archive, the       *)
(* grouping of chunk paths, the boundary-trim join of chunks and the run   *)
(* of unyekFile with its per-file write failures.                          *)
(*                                                                         *)
(* A string is a sequence of one-character strings.  Indices into strings  *)
(* are the 0-based indices of the source; Slice converts.                  *)
(***************************************************************************)
EXTENDS Integers, Sequences, FiniteSets, TLC

\* ------------------------------------------------------------------------
\* Characters and the string primitives of the source
\* ------------------------------------------------------------------------

\* what \s matches, among the characters the model draws
WhiteSpace == {" ", "\n", "\t", "\r"}

\* where the multiline ^ and $ match and what . does not match
LineTerminators == {"\n", "\r"}

Digits == {"0", "1", "2", "3", "4", "5", "6", "7", "8", "9"}

\* what \w matches
WordChars ==
    Digits \cup {"_"} \cup
    {"a", "b", "c", "d", "e", "f", "g", "h", "i", "j", "k", "l", "m",
     "n", "o", "p", "q", "r", "s", "t", "u", "v", "w", "x", "y", "z"} \cup
    {"A", "B", "C", "D", "E", "F", "G", "H", "I", "J", "K", "L", "M",
     "N", "O", "P", "Q", "R", "S", "T", "U", "V", "W", "X", "Y", "Z"}

\* what ["'] matches
Quotes == {"\"", "'"}

Min(a, b) == IF a <= b THEN a ELSE b

Max(a, b) == IF a >= b THEN a ELSE b

\* s.slice(start, end) for 0 <= start, 0 <= end: clipped to the string, empty
\* when start >= end
Slice(s, start, end) ==
    SubSeq(s, Min(start, Len(s)) + 1, Min(end, Len(s)))

\* s.slice(-n)
SliceLast(s, n) == SubSeq(s, Max(Len(s) - n, 0) + 1, Len(s))

\* s.slice(0, n)
SliceFirst(s, n) == SubSeq(s, 1, Min(n, Len(s)))

\* s.replace(/\s+$/, "")
RECURSIVE RStrip(_)
RStrip(s) ==
    IF s # <<>> /\ s[Len(s)] \in WhiteSpace
    THEN RStrip(SubSeq(s, 1, Len(s) - 1))
    ELSE s

\* s.replace(/^\s+/, "")
RECURSIVE LStrip(_)
LStrip(s) ==
    IF s # <<>> /\ s[1] \in WhiteSpace THEN LStrip(Tail(s)) ELSE s

\* s.trim()
Trim(s) == LStrip(RStrip(s))

\* ------------------------------------------------------------------------
\* Constants of the source
\* ------------------------------------------------------------------------

FILE_MARKER == <<">", ">", ">", ">">>

\* the literal ":part" of PART_REGEX
PART_LITERAL == <<":", "p", "a", "r", "t">>

\* ------------------------------------------------------------------------
\* Map<string, string>: the entries in insertion order, keys distinct
\* ------------------------------------------------------------------------

MapHas(m, k) == \E i \in 1..Len(m) : m[i].path = k

\* Map.prototype.set: a present key keeps its position and takes the value
MapSet(m, k, v) ==
    IF MapHas(m, k)
    THEN [i \in 1..Len(m) |->
            IF m[i].path = k THEN [path |-> k, content |-> v] ELSE m[i]]
    ELSE Append(m, [path |-> k, content |-> v])

\* ------------------------------------------------------------------------
\* parseYekContent
\* ------------------------------------------------------------------------

\* ^ with the m flag, at 0-based position p
AtLineStart(content, p) == p = 0 \/ content[p] \in LineTerminators

\* first position >= p that holds no white space (\s+, greedy)
RECURSIVE SkipWhiteSpace(_, _)
SkipWhiteSpace(content, p) ==
    IF p < Len(content) /\ content[p + 1] \in WhiteSpace
    THEN SkipWhiteSpace(content, p + 1)
    ELSE p

\* first position >= p that holds a line terminator, or the length (.*$)
RECURSIVE SkipLine(_, _)
SkipLine(content, p) ==
    IF p < Len(content) /\ content[p + 1] \notin LineTerminators
    THEN SkipLine(content, p + 1)
    ELSE p

\* whether ^>>>>\s+.*$ matches at position p
MarkerMatchesAt(content, p) ==
    /\ AtLineStart(content, p)
    /\ p + Len(FILE_MARKER) < Len(content)
    /\ Slice(content, p, p + Len(FILE_MARKER)) = FILE_MARKER
    /\ content[p + Len(FILE_MARKER) + 1] \in WhiteSpace

\* the end (exclusive) of the match that starts at p
MarkerMatchEnd(content, p) ==
    SkipLine(content, SkipWhiteSpace(content, p + Len(FILE_MARKER)))

\* the loop over markerRegex.exec: the matches from lastIndex on, in order
RECURSIVE ScanMarkers(_, _)
ScanMarkers(content, lastIndex) ==
    IF lastIndex >= Len(content) THEN <<>>
    ELSE IF MarkerMatchesAt(content, lastIndex)
    THEN LET e == MarkerMatchEnd(content, lastIndex)
         IN <<[index |-> lastIndex, marker |-> Slice(content, lastIndex, e)]>>
              \o ScanMarkers(content, e)
    ELSE ScanMarkers(content, lastIndex + 1)

\* ProcessSections without the + 1 that skips the newline of the marker line
RECURSIVE SectionsKeepNewline(_, _, _, _)
SectionsKeepNewline(content, markers, i, result) ==
    IF i > Len(markers) THEN result
    ELSE LET currentMarker == markers[i]
             path == Trim(Slice(currentMarker.marker, Len(FILE_MARKER),
                                Len(currentMarker.marker)))
             contentStart == currentMarker.index + Len(currentMarker.marker)
             contentEnd == IF i < Len(markers) THEN markers[i + 1].index
                           ELSE Len(content)
             fileContent == Slice(content, contentStart, contentEnd)
         IN SectionsKeepNewline(content, markers, i + 1,
                IF path # <<>> THEN MapSet(result, path, fileContent)
                ELSE result)

\* the loop over the markers, from the i-th on (1-based), filling result
RECURSIVE ProcessSections(_, _, _, _)
ProcessSections(content, markers, i, result) ==
    IF i > Len(markers) THEN result
    ELSE LET currentMarker == markers[i]
             path == Trim(Slice(currentMarker.marker, Len(FILE_MARKER),
                                Len(currentMarker.marker)))
             contentStart == currentMarker.index + Len(currentMarker.marker) + 1
             contentEnd == IF i < Len(markers) THEN markers[i + 1].index
                           ELSE Len(content)
             fileContent == Slice(content, contentStart, contentEnd)
         IN ProcessSections(content, markers, i + 1,
                IF path # <<>> THEN MapSet(result, path, fileContent)
                ELSE result)

parseYekContent(content) ==
    ProcessSections(content, ScanMarkers(content, 0), 1, <<>>)

\* ------------------------------------------------------------------------
\* parseFilePath and groupFilesByBasePath
\* ------------------------------------------------------------------------

\* the length of the run of digits that ends the string (\d+$)
RECURSIVE DigitSuffixLen(_)
DigitSuffixLen(s) ==
    IF s # <<>> /\ s[Len(s)] \in Digits
    THEN 1 + DigitSuffixLen(SubSeq(s, 1, Len(s) - 1))
    ELSE 0

DigitValue(c) ==
    CASE c = "0" -> 0 [] c = "1" -> 1 [] c = "2" -> 2 [] c = "3" -> 3
      [] c = "4" -> 4 [] c = "5" -> 5 [] c = "6" -> 6 [] c = "7" -> 7
      [] c = "8" -> 8 [] c = "9" -> 9

\* parseInt(s, 10) of a non-empty string of digits
RECURSIVE parseInt(_)
parseInt(s) ==
    IF s = <<>> THEN 0
    ELSE 10 * parseInt(SubSeq(s, 1, Len(s) - 1)) + DigitValue(s[Len(s)])

\* path.match(PART_REGEX): ^(.+):part(\d+)$
PartRegexMatches(path) ==
    LET d == DigitSuffixLen(path)
        b == Len(path) - d - Len(PART_LITERAL)
    IN /\ d >= 1
       /\ b >= 1
       /\ SubSeq(path, b + 1, b + Len(PART_LITERAL)) = PART_LITERAL
       /\ \A i \in 1..b : path[i] \notin LineTerminators

NoPart == -1

\* partNumber is NoPart where the source returns null
parseFilePath(path) ==
    IF ~PartRegexMatches(path)
    THEN [basePath |-> path, partNumber |-> NoPart]
    ELSE LET d == DigitSuffixLen(path)
         IN [basePath |-> SubSeq(path, 1, Len(path) - d - Len(PART_LITERAL)),
             partNumber |-> parseInt(SubSeq(path, Len(path) - d + 1, Len(path)))]

GroupHas(groupedFiles, basePath) ==
    \E i \in 1..Len(groupedFiles) : groupedFiles[i].basePath = basePath

\* GroupEntry without the branch that gives a path without suffix the number 0
GroupEntryKeepsNull(groupedFiles, path, content) ==
    LET parsed == parseFilePath(path)
        basePath == parsed.basePath
        withGroup ==
            IF ~GroupHas(groupedFiles, basePath)
            THEN Append(groupedFiles, [parts |-> <<>>, basePath |-> basePath])
            ELSE groupedFiles
        part == [path |-> path, partNumber |-> parsed.partNumber,
                 content |-> content]
    IN [i \in 1..Len(withGroup) |->
          IF withGroup[i].basePath = basePath
          THEN [withGroup[i] EXCEPT !.parts = Append(@, part)]
          ELSE withGroup[i]]

\* the body of the loop of groupFilesByBasePath for one entry of files
GroupEntry(groupedFiles, path, content) ==
    LET parsed == parseFilePath(path)
        basePath == parsed.basePath
        partNumber == parsed.partNumber
        withGroup ==
            IF ~GroupHas(groupedFiles, basePath)
            THEN Append(groupedFiles, [parts |-> <<>>, basePath |-> basePath])
            ELSE groupedFiles
        part ==
            IF partNumber # NoPart
            THEN [path |-> path, partNumber |-> partNumber, content |-> content]
            ELSE [path |-> path, partNumber |-> 0, content |-> content]
    IN [i \in 1..Len(withGroup) |->
          IF withGroup[i].basePath = basePath
          THEN [withGroup[i] EXCEPT !.parts = Append(@, part)]
          ELSE withGroup[i]]

RECURSIVE GroupFrom(_, _, _)
GroupFrom(files, i, groupedFiles) ==
    IF i > Len(files) THEN groupedFiles
    ELSE GroupFrom(files, i + 1,
                   GroupEntry(groupedFiles, files[i].path, files[i].content))

groupFilesByBasePath(files) == GroupFrom(files, 1, <<>>)

\* ------------------------------------------------------------------------
\* shouldJoinParts and combineFileParts
\* ------------------------------------------------------------------------

\* end.match(/\w$/) && start.match(/^\w/)
SplitWord(end, start) ==
    /\ end # <<>> /\ end[Len(end)] \in WordChars
    /\ start # <<>> /\ start[1] \in WordChars

\* end.match(/["']$/) && start.match(/^["']/)
SplitLiteral(end, start) ==
    /\ end # <<>> /\ end[Len(end)] \in Quotes
    /\ start # <<>> /\ start[1] \in Quotes

\* end.match(/["'][^"']*$/) && start.match(/^[^"']*["']/)
SplitContent(end, start) ==
    /\ \E i \in 1..Len(end) :
          /\ end[i] \in Quotes
          /\ \A j \in (i + 1)..Len(end) : end[j] \notin Quotes
    /\ \E i \in 1..Len(start) :
          /\ start[i] \in Quotes
          /\ \A j \in 1..(i - 1) : start[j] \notin Quotes

\* shouldJoinParts without its third case
JoinWithoutSplitContent(end, start) ==
    \/ SplitWord(end, start)
    \/ SplitLiteral(end, start)

shouldJoinParts(end, start) ==
    \/ SplitWord(end, start)
    \/ SplitLiteral(end, start)
    \/ SplitContent(end, start)

\* the number of characters of each side that the join looks at
LOOK_CHARS == 10

\* insertion of one part into a list sorted by partNumber, after its equals
RECURSIVE InsertSorted(_, _)
InsertSorted(sorted, part) ==
    IF sorted = <<>> THEN <<part>>
    ELSE IF part.partNumber < sorted[1].partNumber THEN <<part>> \o sorted
    ELSE <<sorted[1]>> \o InsertSorted(Tail(sorted), part)

\* combineFileParts without the sort
UnsortedParts(fileParts) == fileParts

\* [...fileParts].sort((a, b) => a.partNumber - b.partNumber), a stable sort
RECURSIVE SortParts(_)
SortParts(fileParts) ==
    IF fileParts = <<>> THEN <<>>
    ELSE InsertSorted(SortParts(SubSeq(fileParts, 1, Len(fileParts) - 1)),
                      fileParts[Len(fileParts)])

\* JoinsAt on the chunks as they are, white space at the boundary included
JoinsAtUntrimmed(sortedParts, i) ==
    /\ i > 1
    /\ shouldJoinParts(SliceLast(sortedParts[i - 1].content, LOOK_CHARS),
                       SliceFirst(sortedParts[i].content, LOOK_CHARS))

\* whether the loop of combineFileParts trims at the i-th sorted part (1-based)
JoinsAt(sortedParts, i) ==
    /\ i > 1
    /\ LET prevContentTrimmed == RStrip(sortedParts[i - 1].content)
           currentContentTrimmed == LStrip(sortedParts[i].content)
           endChars == SliceLast(prevContentTrimmed, LOOK_CHARS)
           startChars == SliceFirst(currentContentTrimmed, LOOK_CHARS)
       IN shouldJoinParts(endChars, startChars)

\* the loop of combineFileParts from the i-th sorted part on
RECURSIVE CombineFrom(_, _, _)
CombineFrom(sortedParts, i, result) ==
    IF i > Len(sortedParts) THEN result
    ELSE IF JoinsAt(sortedParts, i)
    THEN CombineFrom(sortedParts, i + 1,
                     RStrip(result) \o LStrip(sortedParts[i].content))
    ELSE CombineFrom(sortedParts, i + 1, result \o sortedParts[i].content)

combineFileParts(fileParts) == CombineFrom(SortParts(fileParts), 1, <<>>)

\* ------------------------------------------------------------------------
\* State
\* ------------------------------------------------------------------------

VARIABLES
    pc,           \* where the run stands
    args,         \* Deno.args
    archive,      \* the text of the yek file
    pairs,        \* the (path, content) pairs an archive was serialized from
    files,        \* the Map parseYekContent returns
    groupedFiles, \* the Map groupFilesByBasePath returns
    fileParts,    \* the argument of combineFileParts
    result,       \* what combineFileParts returns
    next,         \* the loop of unyekFile: the next entry of groupedFiles
    disk,         \* the files written so far, path and content
    console,      \* the lines logged so far
    exitCode      \* the status the process ends with

vars == <<pc, args, archive, pairs, files, groupedFiles, fileParts, result,
          next, disk, console, exitCode>>

\* ------------------------------------------------------------------------
\* Bounds and the inputs drawn within them
\* ------------------------------------------------------------------------

RECURSIVE Flatten(_)
Flatten(ss) == IF ss = <<>> THEN <<>> ELSE Head(ss) \o Flatten(Tail(ss))

SeqsUpTo(S, n) == UNION {[1..k -> S] : k \in 0..n}

Injections(n, S) ==
    {f \in [1..n -> S] : \A i, j \in 1..n : i # j => f[i] # f[j]}

\* the archive of a run of unyekFile: up to MaxSegments of these
MaxSegments == 4

RunSegments ==
    { FILE_MARKER \o <<" ", "a", "\n">>,
      FILE_MARKER \o <<" ", "b">> \o PART_LITERAL \o <<"0", "\n">>,
      FILE_MARKER \o <<" ", "b">> \o PART_LITERAL \o <<"1", "\n">>,
      <<"x", "\n">>,
      <<"y", " ">> }

\* the archive given to parseYekContent alone: up to MaxPieces of these
MaxPieces == 7

ParsePieces == {FILE_MARKER, <<" ">>, <<"\n">>, <<"a">>, <<"b">>}

\* ------------------------------------------------------------------------
\* parseYekContent alone
\* ------------------------------------------------------------------------

InitParse ==
    /\ pc = "parse"
    /\ \E ss \in SeqsUpTo(ParsePieces, MaxPieces) : archive = Flatten(ss)
    /\ args = <<>>
    /\ pairs = <<>>
    /\ files = <<>>
    /\ groupedFiles = <<>>
    /\ fileParts = <<>>
    /\ result = <<>>
    /\ next = 1
    /\ disk = <<>>
    /\ console = <<>>
    /\ exitCode = 0

Parse ==
    /\ pc = "parse"
    /\ files' = parseYekContent(archive)
    /\ pc' = "parsed"
    /\ UNCHANGED <<args, archive, pairs, groupedFiles, fileParts, result,
                   next, disk, console, exitCode>>

SpecParse == InitParse /\ [][Parse]_vars

\* ------------------------------------------------------------------------
\* parseYekContent on a serialized set of files
\* ------------------------------------------------------------------------

MaxPairs == 2

MaxContentPieces == 2

RoundTripPaths == {<<"a">>, <<"b">>, <<" ", "a">>}

RoundTripContents ==
    {Flatten(ss) :
        ss \in SeqsUpTo({<<"x">>, <<"\n">>, FILE_MARKER}, MaxContentPieces)}

PairList(ps, cs) ==
    [i \in 1..Len(ps) |-> [path |-> ps[i], content |-> cs[i]]]

\* each pair as its marker line followed by its content, no chunking
RECURSIVE Serialize(_)
Serialize(ps) ==
    IF ps = <<>> THEN <<>>
    ELSE FILE_MARKER \o <<" ">> \o Head(ps).path \o <<"\n">>
           \o Head(ps).content \o Serialize(Tail(ps))

InitRoundTrip ==
    /\ pc = "parse"
    /\ \E n \in 1..MaxPairs :
          \E ps \in Injections(n, RoundTripPaths) :
             \E cs \in [1..n -> RoundTripContents] :
                pairs = PairList(ps, cs)
    /\ archive = Serialize(pairs)
    /\ args = <<>>
    /\ files = <<>>
    /\ groupedFiles = <<>>
    /\ fileParts = <<>>
    /\ result = <<>>
    /\ next = 1
    /\ disk = <<>>
    /\ console = <<>>
    /\ exitCode = 0

SpecRoundTrip == InitRoundTrip /\ [][Parse]_vars

\* ------------------------------------------------------------------------
\* groupFilesByBasePath alone
\* ------------------------------------------------------------------------

MaxFiles == 3

GroupPaths ==
    { <<"b">>,
      <<"b">> \o PART_LITERAL,
      <<"b">> \o PART_LITERAL \o <<"0">>,
      <<"b">> \o PART_LITERAL \o <<"1">>,
      <<"b">> \o PART_LITERAL \o <<"0", "1">>,
      <<"b">> \o PART_LITERAL \o <<"1", "x">>,
      <<"b">> \o PART_LITERAL \o <<"1">> \o PART_LITERAL \o <<"2">>,
      PART_LITERAL \o <<"1">>,
      <<"b", "p", "a", "r", "t", "1">> }

GroupContents == {<<"x">>, <<"y", "\n">>}

InitGroup ==
    /\ pc = "group"
    /\ \E n \in 0..MaxFiles :
          \E ps \in Injections(n, GroupPaths) :
             \E cs \in [1..n -> GroupContents] :
                files = PairList(ps, cs)
    /\ args = <<>>
    /\ archive = <<>>
    /\ pairs = <<>>
    /\ groupedFiles = <<>>
    /\ fileParts = <<>>
    /\ result = <<>>
    /\ next = 1
    /\ disk = <<>>
    /\ console = <<>>
    /\ exitCode = 0

Group ==
    /\ pc = "group"
    /\ groupedFiles' = groupFilesByBasePath(files)
    /\ pc' = "grouped"
    /\ UNCHANGED <<args, archive, pairs, files, fileParts, result, next,
                   disk, console, exitCode>>

SpecGroup == InitGroup /\ [][Group]_vars

\* ------------------------------------------------------------------------
\* combineFileParts alone
\* ------------------------------------------------------------------------

\* a file of up to MaxChunkPieces pieces, cut into up to MaxParts chunks that
\* the archive lists in any order
MaxParts == 3

MaxChunkPieces == 3

Dashes == <<"-", "-", "-", "-", "-", "-", "-", "-", "-">>

\* a word character, white space, and two pieces of LOOK_CHARS characters with
\* a quote at one end: the quote is the first of the last LOOK_CHARS
\* characters, or the last of the first, until a piece more moves it out
ChunkPieces == {<<"a">>, <<" ">>, <<"\"">> \o Dashes, Dashes \o <<"\"">>}

Cuts(len, k) ==
    {c \in [1..(k - 1) -> 0..len] : \A i \in 1..(k - 2) : c[i] <= c[i + 1]}

\* the i-th of the k chunks that the cuts c make of the pieces ps
ChunkOf(ps, c, k, i) ==
    Flatten(SubSeq(ps, (IF i = 1 THEN 0 ELSE c[i - 1]) + 1,
                       IF i = k THEN Len(ps) ELSE c[i]))

ChunkPath(n) ==
    <<"f">> \o PART_LITERAL \o <<CHOOSE d \in Digits : DigitValue(d) = n>>

LineOne == <<"l", "i", "n", "e", " ", "o", "n", "e", "\n">>

NewlineLineTwo == <<"\n", "l", "i", "n", "e", " ", "t", "w", "o">>

\* the chunks of the cut file, listed in the order perm
CutParts(ps, c, k, perm) ==
    [j \in 1..k |->
        [path |-> ChunkPath(perm[j] - 1),
         partNumber |-> perm[j] - 1,
         content |-> ChunkOf(ps, c, k, perm[j])]]

\* the two chunks "line one\n" and "\nline two", listed in the order perm
LineParts(perm) ==
    [j \in 1..2 |->
        [path |-> ChunkPath(perm[j] - 1),
         partNumber |-> perm[j] - 1,
         content |-> <<LineOne, NewlineLineTwo>>[perm[j]]]]

InitCombine ==
    /\ pc = "combine"
    /\ \/ \E k \in 1..MaxParts :
            \E ps \in SeqsUpTo(ChunkPieces, MaxChunkPieces) :
               \E c \in Cuts(Len(ps), k) :
                  \E perm \in Injections(k, 1..k) :
                     fileParts = CutParts(ps, c, k, perm)
       \/ \E perm \in Injections(2, 1..2) : fileParts = LineParts(perm)
    /\ args = <<>>
    /\ archive = <<>>
    /\ pairs = <<>>
    /\ files = <<>>
    /\ groupedFiles = <<>>
    /\ result = <<>>
    /\ next = 1
    /\ disk = <<>>
    /\ console = <<>>
    /\ exitCode = 0

Combine ==
    /\ pc = "combine"
    /\ result' = combineFileParts(fileParts)
    /\ pc' = "combined"
    /\ UNCHANGED <<args, archive, pairs, files, groupedFiles, fileParts,
                   next, disk, console, exitCode>>

SpecCombine == InitCombine /\ [][Combine]_vars

\* ------------------------------------------------------------------------
\* The run: import.meta.main and unyekFile
\* ------------------------------------------------------------------------

Init ==
    /\ pc = "main"
    /\ args \in {<<>>, <<"archive.yek">>}
    /\ \E ss \in SeqsUpTo(RunSegments, MaxSegments) : archive = Flatten(ss)
    /\ pairs = <<>>
    /\ files = <<>>
    /\ groupedFiles = <<>>
    /\ fileParts = <<>>
    /\ result = <<>>
    /\ next = 1
    /\ disk = <<>>
    /\ console = <<>>
    /\ exitCode = 0

Line(kind, basePath, parts) ==
    [kind |-> kind, basePath |-> basePath, parts |-> parts]

\* no yekPath: the usage line and Deno.exit(1)
UsageError ==
    /\ pc = "main"
    /\ args = <<>>
    /\ console' = Append(console, Line("usage", <<>>, 0))
    /\ exitCode' = 1
    /\ pc' = "exited"
    /\ UNCHANGED <<args, archive, pairs, files, groupedFiles, fileParts,
                   result, next, disk>>

\* unyekFile(yekPath) up to its await of Deno.readTextFile
Start ==
    /\ pc = "main"
    /\ args # <<>>
    /\ pc' = "reading"
    /\ UNCHANGED <<args, archive, pairs, files, groupedFiles, fileParts,
                   result, next, disk, console, exitCode>>

\* Deno.readTextFile rejects: the outer catch logs and calls Deno.exit(1)
ReadFails ==
    /\ pc = "reading"
    /\ console' = Append(console, Line("error", <<>>, 0))
    /\ exitCode' = 1
    /\ pc' = "exited"
    /\ UNCHANGED <<args, archive, pairs, files, groupedFiles, fileParts,
                   result, next, disk>>

\* Deno.readTextFile resolves: parse and group, up to the first write
ReadSucceeds ==
    /\ pc = "reading"
    /\ files' = parseYekContent(archive)
    /\ groupedFiles' = groupFilesByBasePath(files')
    /\ next' = 1
    /\ pc' = "writing"
    /\ UNCHANGED <<args, archive, pairs, fileParts, result, disk, console,
                   exitCode>>

\* one pass of the loop whose writeFileContent resolves
WriteSucceeds ==
    /\ pc = "writing"
    /\ next <= Len(groupedFiles)
    /\ LET fileGroup == groupedFiles[next]
           combinedContent == combineFileParts(fileGroup.parts)
       IN /\ fileParts' = fileGroup.parts
          /\ result' = combinedContent
          /\ disk' = MapSet(disk, fileGroup.basePath, combinedContent)
          /\ console' = Append(console,
                Line("written", fileGroup.basePath, Len(fileGroup.parts)))
    /\ next' = next + 1
    /\ UNCHANGED <<pc, args, archive, pairs, files, groupedFiles, exitCode>>

\* WriteFails without the inner try: the outer catch logs and exits
WriteFailsAborts ==
    /\ pc = "writing"
    /\ next <= Len(groupedFiles)
    /\ LET fileGroup == groupedFiles[next]
       IN /\ fileParts' = fileGroup.parts
          /\ result' = combineFileParts(fileGroup.parts)
          /\ console' = Append(console, Line("failed", fileGroup.basePath, 0))
    /\ exitCode' = 1
    /\ pc' = "exited"
    /\ UNCHANGED <<args, archive, pairs, files, groupedFiles, next, disk>>

\* one pass of the loop whose writeFileContent rejects: the inner catch logs
WriteFails ==
    /\ pc = "writing"
    /\ next <= Len(groupedFiles)
    /\ LET fileGroup == groupedFiles[next]
       IN /\ fileParts' = fileGroup.parts
          /\ result' = combineFileParts(fileGroup.parts)
          /\ console' = Append(console, Line("failed", fileGroup.basePath, 0))
    /\ next' = next + 1
    /\ UNCHANGED <<pc, args, archive, pairs, files, groupedFiles, disk,
                   exitCode>>

\* the loop is over and unyekFile returns: the process ends with status 0
Finish ==
    /\ pc = "writing"
    /\ next > Len(groupedFiles)
    /\ pc' = "exited"
    /\ UNCHANGED <<args, archive, pairs, files, groupedFiles, fileParts,
                   result, next, disk, console, exitCode>>

Next ==
    \/ UsageError
    \/ Start
    \/ ReadFails
    \/ ReadSucceeds
    \/ WriteSucceeds
    \/ WriteFails
    \/ Finish

Spec == Init /\ [][Next]_vars

\* ========================================================================
\* Properties
\* ========================================================================

\* the number of white-space characters that end s
TrailingWs(s) ==
    CHOOSE n \in 0..Len(s) :
        /\ \A i \in (Len(s) - n + 1)..Len(s) : s[i] \in WhiteSpace
        /\ n = Len(s) \/ s[Len(s) - n] \notin WhiteSpace

\* the number of white-space characters that begin s
LeadingWs(s) ==
    CHOOSE n \in 0..Len(s) :
        /\ \A i \in 1..n : s[i] \in WhiteSpace
        /\ n = Len(s) \/ s[n + 1] \notin WhiteSpace

\* the parts in ascending order of their (distinct) chunk numbers
Ascending(parts) ==
    [r \in 1..Len(parts) |->
        parts[CHOOSE j \in 1..Len(parts) :
                Cardinality({i \in 1..Len(parts) :
                    parts[i].partNumber < parts[j].partNumber}) = r - 1]]

DistinctNumbers(parts) ==
    \A i, j \in 1..Len(parts) :
        i # j => parts[i].partNumber # parts[j].partNumber

RECURSIVE ConcatContents(_)
ConcatContents(parts) ==
    IF parts = <<>> THEN <<>>
    ELSE Head(parts).content \o ConcatContents(Tail(parts))

\* the last LOOK_CHARS characters of prev stripped of its trailing white space
RuleEnd(prev) ==
    LET t == SubSeq(prev, 1, Len(prev) - TrailingWs(prev))
    IN SubSeq(t, Max(1, Len(t) - LOOK_CHARS + 1), Len(t))

\* the first LOOK_CHARS characters of cur stripped of its leading white space
RuleStart(cur) ==
    LET t == SubSeq(cur, LeadingWs(cur) + 1, Len(cur))
    IN SubSeq(t, 1, Min(LOOK_CHARS, Len(t)))

HasQuote(s) == \E i \in 1..Len(s) : s[i] \in Quotes

\* the join rule between two adjacent chunks
JoinRule(prev, cur) ==
    LET end == RuleEnd(prev)
        start == RuleStart(cur)
    IN /\ end # <<>>
       /\ start # <<>>
       /\ \/ end[Len(end)] \in WordChars /\ start[1] \in WordChars
          \/ end[Len(end)] \in Quotes /\ start[1] \in Quotes
          \/ HasQuote(end) /\ HasQuote(start)

\* whether the rule joins the i-th chunk of the sorted list to the one before
RuleJoinsAt(sorted, i) ==
    i > 1 /\ i <= Len(sorted) /\ JoinRule(sorted[i - 1].content, sorted[i].content)

\* what is left of the i-th chunk: its leading white space goes when it is
\* joined to the chunk before, its trailing white space when the next is joined
\* to it
Kept(sorted, i) ==
    LET c == sorted[i].content
        from == IF RuleJoinsAt(sorted, i) THEN LeadingWs(c) + 1 ELSE 1
        to == IF RuleJoinsAt(sorted, i + 1) THEN Len(c) - TrailingWs(c)
              ELSE Len(c)
    IN SubSeq(c, from, to)

RECURSIVE ConcatKept(_, _)
ConcatKept(sorted, i) ==
    IF i > Len(sorted) THEN <<>>
    ELSE Kept(sorted, i) \o ConcatKept(sorted, i + 1)

\* the group of C1: part0 "line one\n", part1 "\nline two", in either order
IsLineGroup(parts) ==
    /\ Len(parts) = 2
    /\ \E i, j \in 1..2 :
          /\ parts[i].partNumber = 0 /\ parts[i].content = LineOne
          /\ parts[j].partNumber = 1 /\ parts[j].content = NewlineLineTwo

\* C1 as stated: "line one\n" and "\nline two" combine to "line one\n\nline two"
C1_AsStated ==
    (pc = "combined" /\ IsLineGroup(fileParts))
        => result = LineOne \o NewlineLineTwo

\* C1, amended: "line one\n" and "\nline two" combine to "line oneline two";
\* stripped of the boundary white space the chunks end and begin with a word
\* character, so the boundary newlines are removed
C1_LinesAreJoined ==
    (pc = "combined" /\ IsLineGroup(fileParts))
        => result = <<"l", "i", "n", "e", " ", "o", "n", "e",
                      "l", "i", "n", "e", " ", "t", "w", "o">>

C1_Witness == pc = "combined" /\ IsLineGroup(fileParts)

EndsWordOrQuote(s) == s # <<>> /\ s[Len(s)] \in WordChars \cup Quotes

BeginsWordOrQuote(s) == s # <<>> /\ s[1] \in WordChars \cup Quotes

\* C2 as stated: chunks with distinct numbers, of which at no boundary the
\* earlier ends with a word or quote character and the later begins with one,
\* combine to the concatenation of their contents in ascending number order,
\* whatever the order of the list
C2_AsStated ==
    (/\ pc = "combined"
     /\ DistinctNumbers(fileParts)
     /\ \A i \in 2..Len(fileParts) :
           ~(/\ EndsWordOrQuote(Ascending(fileParts)[i - 1].content)
             /\ BeginsWordOrQuote(Ascending(fileParts)[i].content)))
        => result = ConcatContents(Ascending(fileParts))

\* C2, amended: chunks with distinct numbers, of which at no boundary the join
\* rule holds of the chunks stripped of their boundary white space, combine to
\* the concatenation of their contents in ascending number order, whatever the
\* order of the list
C2_ExactConcatenation ==
    (/\ pc = "combined"
     /\ DistinctNumbers(fileParts)
     /\ \A i \in 2..Len(fileParts) : ~RuleJoinsAt(Ascending(fileParts), i))
        => result = ConcatContents(Ascending(fileParts))

\* three chunks listed out of order, white space at a boundary, no join
C2_Witness ==
    /\ pc = "combined"
    /\ Len(fileParts) = 3
    /\ fileParts # Ascending(fileParts)
    /\ \A i \in 2..3 : ~RuleJoinsAt(Ascending(fileParts), i)
    /\ \E i \in 2..3 :
          /\ TrailingWs(Ascending(fileParts)[i - 1].content) > 0
          /\ Ascending(fileParts)[i].content # <<>>
    /\ result = ConcatContents(Ascending(fileParts))

\* C8: the result is the chunks in sorted order, each joined to the one before
\* exactly when the join rule holds of the two, and all that a join removes is
\* the trailing white space of the earlier chunk and the leading white space of
\* the later one
C8_JoinRule ==
    pc = "combined" => result = ConcatKept(Ascending(fileParts), 1)

\* after a boundary that is not joined, a join that removes white space
C8_Witness ==
    /\ pc = "combined"
    /\ Len(fileParts) = 3
    /\ ~RuleJoinsAt(Ascending(fileParts), 2)
    /\ RuleJoinsAt(Ascending(fileParts), 3)
    /\ TrailingWs(Ascending(fileParts)[2].content) > 0
    /\ HasQuote(Ascending(fileParts)[3].content)
    /\ result # ConcatContents(Ascending(fileParts))
    /\ result = ConcatKept(Ascending(fileParts), 1)

\* ------------------------------------------------------------------------

\* whether the path is <basePath>:part<N>, basePath not empty, N digits
HasPartSuffix(path) ==
    \E b \in 1..(Len(path) - Len(PART_LITERAL) - 1) :
        /\ SubSeq(path, b + 1, b + Len(PART_LITERAL)) = PART_LITERAL
        /\ \A i \in (b + Len(PART_LITERAL) + 1)..Len(path) : path[i] \in Digits

\* whether the path is base followed by :part<N>
IsChunkOf(path, base) ==
    /\ Len(path) > Len(base) + Len(PART_LITERAL)
    /\ SubSeq(path, 1, Len(base) + Len(PART_LITERAL)) = base \o PART_LITERAL
    /\ \A i \in (Len(base) + Len(PART_LITERAL) + 1)..Len(path) :
          path[i] \in Digits

GroupsOf(basePath) ==
    {g \in 1..Len(groupedFiles) : groupedFiles[g].basePath = basePath}

AsChunkZero(file) ==
    [path |-> file.path, partNumber |-> 0, content |-> file.content]

\* C7 as stated: an entry whose path has no :part<N> suffix gets chunk number 0
\* and is alone in the group keyed by its own path
C7_AsStated ==
    pc = "grouped" =>
        \A i \in 1..Len(files) :
            ~HasPartSuffix(files[i].path) =>
                \E g \in GroupsOf(files[i].path) :
                    groupedFiles[g].parts = <<AsChunkZero(files[i])>>

\* C7, amended: an entry whose path has no :part<N> suffix gets chunk number 0
\* and is once in the one group keyed by its own path; every other entry of
\* that group is a chunk <that path>:part<N> of the list, so that the group is
\* a singleton exactly when the list has no such chunk
C7_GroupedUnderOwnPath ==
    pc = "grouped" =>
        \A i \in 1..Len(files) :
            ~HasPartSuffix(files[i].path) =>
                /\ Cardinality(GroupsOf(files[i].path)) = 1
                /\ \A g \in GroupsOf(files[i].path) :
                      LET parts == groupedFiles[g].parts
                      IN /\ Cardinality({k \in 1..Len(parts) :
                                parts[k] = AsChunkZero(files[i])}) = 1
                         /\ \A k \in 1..Len(parts) :
                               \/ parts[k] = AsChunkZero(files[i])
                               \/ IsChunkOf(parts[k].path, files[i].path)
                         /\ Len(parts) = 1 +
                              Cardinality({j \in 1..Len(files) :
                                 IsChunkOf(files[j].path, files[i].path)})

\* a path without suffix that shares its group with a chunk of it, and one
\* that is alone in its group
C7_Witness ==
    /\ pc = "grouped"
    /\ \E i, j \in 1..Len(files) :
          /\ ~HasPartSuffix(files[i].path)
          /\ IsChunkOf(files[j].path, files[i].path)
          /\ \E g \in GroupsOf(files[i].path) :
                Len(groupedFiles[g].parts) = 2
    /\ \E i \in 1..Len(files) :
          /\ ~HasPartSuffix(files[i].path)
          /\ \E g \in GroupsOf(files[i].path) :
                groupedFiles[g].parts = <<AsChunkZero(files[i])>>

\* ------------------------------------------------------------------------

Entries(m) == {m[i] : i \in 1..Len(m)}

\* the 0-based positions of s at which a line begins
LineStarts(s) ==
    {p \in 0..(Len(s) - 1) : p = 0 \/ s[p] \in LineTerminators}

\* whether the line that begins at p is the marker prefix and then white space
\* (the line terminator counts)
MarkerLikeAt(s, p) ==
    /\ p + Len(FILE_MARKER) < Len(s)
    /\ SubSeq(s, p + 1, p + Len(FILE_MARKER)) = FILE_MARKER
    /\ s[p + Len(FILE_MARKER) + 1] \in WhiteSpace

\* what serializes to an archive that reads back: paths that are trimmed and
\* within one line; no content with a marker-like line; each content but the
\* last empty or ended by a line terminator
WellFormedPairs(ps) ==
    \A i \in 1..Len(ps) :
        /\ ps[i].path # <<>>
        /\ ps[i].path[1] \notin WhiteSpace
        /\ ps[i].path[Len(ps[i].path)] \notin WhiteSpace
        /\ \A k \in 1..Len(ps[i].path) : ps[i].path[k] \notin LineTerminators
        /\ \A p \in LineStarts(ps[i].content) : ~MarkerLikeAt(ps[i].content, p)
        /\ i < Len(ps) =>
              \/ ps[i].content = <<>>
              \/ ps[i].content[Len(ps[i].content)] \in LineTerminators

\* C3 as stated: pairs with distinct non-empty paths, serialized and parsed,
\* give back the same mapping
C3_AsStated ==
    pc = "parsed" => Entries(files) = Entries(pairs)

\* C3, amended: pairs with distinct paths that are trimmed and within one
\* line, of which no content has a line that begins with the marker prefix
\* and white space and each content but the last is empty or ends with a line
\* terminator, serialized and parsed, give back the same mapping
C3_RoundTrip ==
    (pc = "parsed" /\ WellFormedPairs(pairs))
        => Entries(files) = Entries(pairs)

\* two files read back, the first with content
C3_Witness ==
    /\ pc = "parsed"
    /\ WellFormedPairs(pairs)
    /\ Len(pairs) = 2
    /\ Len(pairs[1].content) >= 2
    /\ pairs[2].content # <<>>
    /\ Entries(files) = Entries(pairs)

\* ------------------------------------------------------------------------

\* the position after the line that begins at p: of its terminator, or the
\* length of s
LineEnd(s, p) ==
    CHOOSE e \in p..Len(s) :
        /\ \A k \in (p + 1)..e : s[k] \notin LineTerminators
        /\ e = Len(s) \/ s[e + 1] \in LineTerminators

\* the marker lines of s, by the position they begin at: a line that is the
\* marker prefix, white space, and the rest of the line
MarkerLines(s) ==
    {p \in LineStarts(s) :
        /\ p + Len(FILE_MARKER) < LineEnd(s, p)
        /\ SubSeq(s, p + 1, p + Len(FILE_MARKER)) = FILE_MARKER
        /\ s[p + Len(FILE_MARKER) + 1] \in WhiteSpace}

\* the path of the marker line at p: what follows the prefix, trimmed
PathOfLine(s, p) ==
    LET payload == SubSeq(s, p + Len(FILE_MARKER) + 1, LineEnd(s, p))
    IN SubSeq(payload, LeadingWs(payload) + 1,
              Len(payload) - (IF LeadingWs(payload) = Len(payload) THEN 0
                              ELSE TrailingWs(payload)))

\* the marker lines that carry a path
PathLines(s) == {p \in MarkerLines(s) : PathOfLine(s, p) # <<>>}

\* the lines that are the marker prefix and then nothing but white space
EmptyMarkerLines(s) ==
    {p \in LineStarts(s) :
        /\ p + Len(FILE_MARKER) <= LineEnd(s, p)
        /\ SubSeq(s, p + 1, p + Len(FILE_MARKER)) = FILE_MARKER
        /\ \A k \in (p + Len(FILE_MARKER) + 1)..LineEnd(s, p) :
              s[k] \in WhiteSpace}

\* the content of the marker line at p: from after its terminator to the next
\* marker line, or to the end
ContentOfLine(s, p) ==
    LET later == {q \in MarkerLines(s) : q > p}
        stop == IF later = {} THEN Len(s)
                ELSE CHOOSE q \in later : \A r \in later : q <= r
    IN SubSeq(s, LineEnd(s, p) + 2, stop)

\* the k-th smallest member of a set of numbers
Nth(S, k) == CHOOSE p \in S : Cardinality({q \in S : q < p}) = k - 1

\* C4: every entry has the path of one marker line; a marker line whose
\* trimmed path is empty gives no entry and takes no later line as its path
C4_EmptyMarkerDropped ==
    pc = "parsed" =>
        \A i \in 1..Len(files) :
            \E p \in PathLines(archive) :
                files[i].path = PathOfLine(archive, p)

\* C9, of the archives without a marker line of empty path (those are C4's):
\* one entry for each marker line, in the order of the marker lines, two
\* lines with the same path included
C9_OneEntryPerMarker ==
    (pc = "parsed" /\ EmptyMarkerLines(archive) = {}) =>
        /\ Len(files) = Cardinality(PathLines(archive))
        /\ \A i \in 1..Len(files) :
              files[i].path = PathOfLine(archive, Nth(PathLines(archive), i))

\* C10: the content of every entry runs from after the newline that ends its
\* marker line to the next marker line or the end of the archive, and an
\* archive without marker line gives no entry
C10_ContentSpan ==
    pc = "parsed" =>
        /\ \A i \in 1..Len(files) :
              \E p \in PathLines(archive) :
                 /\ files[i].path = PathOfLine(archive, p)
                 /\ files[i].content = ContentOfLine(archive, p)
        /\ MarkerLines(archive) = {} => files = <<>>

\* ------------------------------------------------------------------------

ReadSucceeded ==
    /\ pc \in {"writing", "exited"}
    /\ \A i \in 1..Len(console) : console[i].kind \in {"written", "failed"}

\* C5: a run that read the archive and failed to write a base path ends with
\* a status that is not 0
C5_FailureExitsNonZero ==
    (/\ pc = "exited"
     /\ ReadSucceeded
     /\ \E i \in 1..Len(console) : console[i].kind = "failed")
        => exitCode # 0

ContentOnDisk(path) ==
    LET i == CHOOSE i \in 1..Len(disk) : disk[i].path = path
    IN disk[i].content

\* C6: whichever writes fail, the base paths of the grouped archive are
\* attempted once each in their order, all of them by the end of the run, and
\* each whose write does not fail is written with its combined content and
\* reported as written
C6_FailuresRecoveredLocally ==
    ReadSucceeded =>
        LET g == groupFilesByBasePath(parseYekContent(archive))
        IN /\ Len(console) <= Len(g)
           /\ pc = "exited" => Len(console) = Len(g)
           /\ \A i, j \in 1..Len(g) : i # j => g[i].basePath # g[j].basePath
           /\ \A i \in 1..Len(console) :
                 /\ console[i].basePath = g[i].basePath
                 /\ console[i].kind = "written" =>
                       /\ MapHas(disk, g[i].basePath)
                       /\ ContentOnDisk(g[i].basePath)
                            = combineFileParts(g[i].parts)
                       /\ console[i].parts = Len(g[i].parts)

\* a run in which the write of the first base path fails and the second base
\* path, made of two chunks, is written
C6_Witness ==
    /\ pc = "exited"
    /\ ReadSucceeded
    /\ Len(console) = 2
    /\ console[1].kind = "failed"
    /\ console[2].kind = "written"
    /\ console[2].parts = 2
    /\ MapHas(disk, console[2].basePath)
    /\ ~MapHas(disk, console[1].basePath)

====
